---- MODULE Spec2Model ----
(***************************************************************************)
(* State-machine model of the Vosk speech-to-text desktop application      *)
(* (src/vosk_speech_to_text.py) and of its packaging script                *)
(* (src/Version2 Speech To Text/build_exe.py).                             *)
(*                                                                         *)
(* The application has one UI thread (the Tk main loop), which runs the    *)
(* button handlers and the callbacks posted with root.after(0, ...) one    *)
(* at a time, and recognition threads created by start_listening.  A       *)
(* handler is one action; recognize_speech is split at the points where    *)
(* it reads or writes state shared with the UI thread.  The external       *)
(* services (file system, Model, PyAudio, KaldiRecognizer, dialogs,        *)
(* PyInstaller) answer nondeterministically.  Strings that the program     *)
(* transforms are sequences of one-character strings.  The text of the     *)
(* model path entry is not kept: check_model is given whether the path     *)
(* exists and whether Model() loads it.                                    *)
(*                                                                         *)
(* The log handler (TextHandler.emit) also posts a callback per log        *)
(* record; those callbacks touch only the debug pane and are represented   *)
(* by the level recorded in ev.log.                                        *)
(*                                                                         *)
(* Specifications: Spec and FairSpec (the application driven through its   *)
(* window), CallSpec (start_listening and stop_listening also invoked as   *)
(* plain methods), BuildSpec (one call of build_executable) and MainSpec   *)
(* (repeated runs of build_exe.py in one working directory).               *)
(***************************************************************************)
EXTENDS Naturals, Sequences, FiniteSets

VARIABLES
    is_listening,        \* self.is_listening
    model,               \* self.model: "None" or "Model"
    recognizer,          \* self.recognizer: "None" or "KaldiRecognizer"
    audio,               \* self.audio: "None" or "PyAudio"
    stream,              \* self.stream: "None", "open" or "closed"
    thread,              \* self.thread: "None" or "Thread"
    start_button,        \* state of the Start Listening button
    stop_button,         \* state of the Stop Listening button
    check_model_button,  \* state of the Check Model button
    status_label,        \* text of the status label after "Status: "
    status_indicator,    \* fill colour of the indicator oval
    transcript_text,     \* content of the transcript Text widget, without Tk's final newline
    queue,               \* callbacks posted with root.after(0, ...) and not yet run
    pc,                  \* position of each recognition thread slot
    pending,             \* per thread: the callback it is about to post
    failed,              \* per thread: the operation that has failed in it so far
    expect,              \* history: final texts the recognizer has returned and the
                         \* transcript widget has not been given yet, oldest first
    destroyed,           \* root.destroy() has run
    exited,              \* the interpreter has exited
    ev,                  \* what the step just taken did, until it is read (Quiet after)
    b                    \* the packaging script's state

vars == <<is_listening, model, recognizer, audio, stream, thread,
          start_button, stop_button, check_model_button, status_label,
          status_indicator, transcript_text, queue, pc, pending, failed,
          expect, destroyed, exited, ev, b>>

appvars == <<is_listening, model, recognizer, audio, stream, thread,
             start_button, stop_button, check_model_button, status_label,
             status_indicator, transcript_text, queue, pc, pending, failed,
             expect, destroyed, exited, ev>>

(***************************************************************************)
(* Bounds of the model.                                                    *)
(***************************************************************************)
MaxThreads == 2      \* recognition threads alive at the same time
MaxQueue == 2        \* callbacks waiting in the Tk queue
MaxLines == 2        \* final results shown in, or on their way to, the transcript widget

PartialShown == 20   \* text[:20] in _update_partial_impl

ThreadIds == 1..MaxThreads

\* Final texts the recognizer can return in result["text"].
Texts == {<<>>, <<" ">>, <<" ", "b">>}

\* Partial texts the recognizer can return in partial["partial"].
PartialTexts == {<<>>, [i \in 1..(PartialShown + 1) |-> "x"]}

NoCb == [k |-> "none", text |-> <<>>, color |-> ""]

StatusCb(text, color) == [k |-> "status", text |-> <<text>>, color |-> color]
PartialCb(text) == [k |-> "partial", text |-> text, color |-> ""]
TranscriptCb(text) == [k |-> "transcript", text |-> text, color |-> ""]

(***************************************************************************)
(* Sequence helpers.                                                       *)
(***************************************************************************)
IsPrefix(s, t) == Len(s) <= Len(t) /\ SubSeq(t, 1, Len(s)) = s

IsSpace(c) == c \in {" ", "\n"}

RECURSIVE lstrip(_)
lstrip(s) == IF s # <<>> /\ IsSpace(Head(s)) THEN lstrip(Tail(s)) ELSE s

RECURSIVE rstrip(_)
rstrip(s) ==
    IF s # <<>> /\ IsSpace(s[Len(s)]) THEN rstrip(SubSeq(s, 1, Len(s) - 1)) ELSE s

\* str.strip()
strip(s) == rstrip(lstrip(s))

\* text[:n]
Take(s, n) == SubSeq(s, 1, IF Len(s) < n THEN Len(s) ELSE n)

\* Text.get("1.0", tk.END): the content and Tk's final newline
TextGet(content) == content \o <<"\n">>

Alive(t) == pc[t] # "idle"

\* Callbacks a thread has committed to post; the queue keeps room for them.
Reserved == Cardinality({t \in ThreadIds : pc[t] = "post"})

Room(n) == Len(queue) + Reserved + n <= MaxQueue

\* What a step did: the handler or function, the fallible operation it
\* attempted, the error it met, the dialog it showed, the highest level it
\* logged at, and a detail of its input or outcome (for a step of a
\* recognition thread: what had failed in that thread before).
Event(op, attempt, err, dialog, log, arg) ==
    [op |-> op, attempt |-> attempt, err |-> err, dialog |-> dialog, log |-> log,
     arg |-> arg]

\* A step that attempts nothing fallible and shows and reports nothing.
Quiet == Event("none", "none", "none", "none", "debug", <<>>)

sessionVars == <<is_listening, recognizer, audio, stream, thread>>
buttonVars == <<start_button, stop_button, check_model_button>>
statusVars == <<status_label, status_indicator>>
threadVars == <<pc, pending, failed>>

(***************************************************************************)
(* The application after VoskSpeechToText.__init__.                        *)
(***************************************************************************)
AppInit ==
    /\ is_listening = FALSE
    /\ model = "None"
    /\ recognizer = "None"
    /\ audio = "None"
    /\ stream = "None"
    /\ thread = "None"
    /\ start_button = "disabled"
    /\ stop_button = "disabled"
    /\ check_model_button = "normal"
    /\ status_label = <<"Ready">>
    /\ status_indicator = "gray"
    /\ transcript_text = <<>>
    /\ queue = <<>>
    /\ pc = [t \in ThreadIds |-> "idle"]
    /\ pending = [t \in ThreadIds |-> NoCb]
    /\ failed = [t \in ThreadIds |-> "none"]
    /\ expect = <<>>
    /\ destroyed = FALSE
    /\ exited = FALSE
    /\ ev = Quiet

(***************************************************************************)
(* Handlers of the UI thread.                                              *)
(***************************************************************************)

\* check_model with the Start button enabled in the except clause as well.
check_model_EnablesOnFailure(path_exists, loads) ==
    /\ ev = Quiet
    /\ ~destroyed
    /\ check_model_button = "normal"
    /\ IF ~path_exists
       THEN /\ ev' = Event("check_model", "none", "model_path", "error", "error",
                           <<"missing">>)
            /\ UNCHANGED <<model, start_button>>
       ELSE IF loads
       THEN /\ model' = "Model"
            /\ start_button' = "normal"
            /\ ev' = Event("check_model", "model_load", "none", "info", "info",
                           <<"exists">>)
       ELSE /\ start_button' = "normal"
            /\ ev' = Event("check_model", "model_load", "model_load", "error",
                           "error", <<"exists">>)
            /\ UNCHANGED model
    /\ UNCHANGED <<sessionVars, stop_button, check_model_button, statusVars, threadVars,
                   expect, transcript_text, queue, destroyed, exited, b>>

\* check_model without the os.path.exists test: Model() is called on any path.
check_model_NoPathCheck(path_exists, loads) ==
    /\ ev = Quiet
    /\ ~destroyed
    /\ check_model_button = "normal"
    /\ IF loads
       THEN /\ model' = "Model"
            /\ start_button' = "normal"
            /\ ev' = Event("check_model", "model_load", "none", "info", "info",
                           IF path_exists THEN <<"exists">> ELSE <<"missing">>)
       ELSE /\ ev' = Event("check_model", "model_load", "model_load", "error",
                           "error", IF path_exists THEN <<"exists">> ELSE <<"missing">>)
            /\ UNCHANGED <<model, start_button>>
    /\ UNCHANGED <<sessionVars, stop_button, check_model_button, statusVars, threadVars,
                   expect, transcript_text, queue, destroyed, exited, b>>

\* check_model: path_exists is os.path.exists(model_path), loads is whether
\* Model(model_path) returns instead of raising.
check_model(path_exists, loads) ==
    /\ ev = Quiet
    /\ ~destroyed
    /\ check_model_button = "normal"
    /\ IF ~path_exists
       THEN /\ ev' = Event("check_model", "none", "model_path", "error", "error",
                           <<"missing">>)
            /\ UNCHANGED <<model, start_button>>
       ELSE IF loads
       THEN /\ model' = "Model"
            /\ start_button' = "normal"
            /\ ev' = Event("check_model", "model_load", "none", "info", "info",
                           <<"exists">>)
       ELSE /\ ev' = Event("check_model", "model_load", "model_load", "error",
                           "error", <<"exists">>)
            /\ UNCHANGED <<model, start_button>>
    /\ UNCHANGED <<sessionVars, stop_button, check_model_button, statusVars, threadVars,
                   expect, transcript_text, queue, destroyed, exited, b>>

\* The slot a new recognition thread runs in.
FreeSlot == CHOOSE t \in ThreadIds : ~Alive(t) /\ \A u \in ThreadIds : ~Alive(u) => t <= u

StartOutcomes == {"ok", "pyaudio_raises", "recognizer_raises", "thread_raises"}

\* start_listening whose except clause does not reset the flag (line 175 left out).
start_listening_FlagKept(outcome) ==
    /\ ev = Quiet
    /\ ~destroyed
    /\ Room(2)
    /\ outcome = "ok" => \E t \in ThreadIds : ~Alive(t)
    /\ model = "None" => outcome \in {"pyaudio_raises", "recognizer_raises"}
    /\ IF is_listening
       THEN /\ ev' = Event("start_listening", "none", "none", "none", "debug", <<"ignored">>)
            /\ UNCHANGED <<sessionVars, buttonVars, queue, threadVars>>
       ELSE IF outcome = "ok"
       THEN /\ is_listening' = TRUE
            /\ queue' = Append(queue, StatusCb("Listening...", "green"))
            /\ audio' = "PyAudio"
            /\ recognizer' = "KaldiRecognizer"
            /\ thread' = "Thread"
            /\ pc' = [pc EXCEPT ![FreeSlot] = "open"]
            /\ start_button' = "disabled"
            /\ stop_button' = "normal"
            /\ check_model_button' = "disabled"
            /\ ev' = Event("start_listening", "start", "none", "none", "info", <<outcome>>)
            /\ UNCHANGED <<stream, pending, failed>>
       ELSE /\ is_listening' = TRUE
            /\ queue' = queue \o <<StatusCb("Listening...", "green"),
                                   StatusCb("Error", "red")>>
            /\ audio' = IF outcome = "pyaudio_raises" THEN audio ELSE "PyAudio"
            /\ recognizer' = IF outcome = "thread_raises" THEN "KaldiRecognizer"
                             ELSE recognizer
            /\ thread' = IF outcome = "thread_raises" THEN "Thread" ELSE thread
            /\ ev' = Event("start_listening", "start", "start", "error", "error", <<outcome>>)
            /\ UNCHANGED <<stream, buttonVars, threadVars>>
    /\ UNCHANGED <<statusVars, expect, model, transcript_text, destroyed, exited, b>>

\* start_listening: outcome is which call of the try block raises, if any.
\* KaldiRecognizer(None, 16000) raises, so without a model the try block
\* cannot get past line 161.
start_listening(outcome) ==
    /\ ev = Quiet
    /\ ~destroyed
    /\ Room(2)
    /\ outcome = "ok" => \E t \in ThreadIds : ~Alive(t)
    /\ model = "None" => outcome \in {"pyaudio_raises", "recognizer_raises"}
    /\ IF is_listening
       THEN /\ ev' = Event("start_listening", "none", "none", "none", "debug", <<"ignored">>)
            /\ UNCHANGED <<sessionVars, buttonVars, queue, threadVars>>
       ELSE IF outcome = "ok"
       THEN /\ is_listening' = TRUE
            /\ queue' = Append(queue, StatusCb("Listening...", "green"))
            /\ audio' = "PyAudio"
            /\ recognizer' = "KaldiRecognizer"
            /\ thread' = "Thread"
            /\ pc' = [pc EXCEPT ![FreeSlot] = "open"]
            /\ start_button' = "disabled"
            /\ stop_button' = "normal"
            /\ check_model_button' = "disabled"
            /\ ev' = Event("start_listening", "start", "none", "none", "info", <<outcome>>)
            /\ UNCHANGED <<stream, pending, failed>>
       ELSE /\ is_listening' = FALSE
            /\ queue' = queue \o <<StatusCb("Listening...", "green"),
                                   StatusCb("Error", "red")>>
            /\ audio' = IF outcome = "pyaudio_raises" THEN audio ELSE "PyAudio"
            /\ recognizer' = IF outcome = "thread_raises" THEN "KaldiRecognizer"
                             ELSE recognizer
            /\ thread' = IF outcome = "thread_raises" THEN "Thread" ELSE thread
            /\ ev' = Event("start_listening", "start", "start", "error", "error", <<outcome>>)
            /\ UNCHANGED <<stream, buttonVars, threadVars>>
    /\ UNCHANGED <<statusVars, expect, model, transcript_text, destroyed, exited, b>>

\* The Start button runs its command only while it is enabled.
StartPressed(outcome) == start_button = "normal" /\ start_listening(outcome)

\* The body of stop_listening after its guard and its status update.
StopSession ==
    /\ is_listening' = FALSE
    /\ stream' = IF stream # "None" THEN "closed" ELSE stream
    /\ audio' = "None"
    /\ start_button' = "normal"
    /\ stop_button' = "disabled"
    /\ check_model_button' = "normal"
    /\ UNCHANGED <<recognizer, thread>>

\* The error logged when closing the stream raises inside stop_listening:
\* close_raises is whether stop_stream()/close() raises on a stream that is open.
StopCloseError(close_raises) ==
    IF stream = "closed" \/ (stream = "open" /\ close_raises) THEN "stream_close" ELSE "none"

\* stop_listening without its guard (lines 182-184 left out).
stop_listening_NoGuard(close_raises) ==
    /\ ev = Quiet
    /\ ~destroyed
    /\ Room(1)
    /\ IF FALSE
       THEN /\ ev' = Event("stop_listening", "none", "none", "none", "debug", <<"ignored">>)
            /\ UNCHANGED <<sessionVars, buttonVars, queue>>
       ELSE /\ StopSession
            /\ queue' = Append(queue, StatusCb("Stopped", "gray"))
            /\ ev' = Event("stop_listening", "none", StopCloseError(close_raises), "none",
                           IF StopCloseError(close_raises) = "none" THEN "info" ELSE "error",
                           <<"stopped">>)
    /\ UNCHANGED <<statusVars, threadVars, expect, model, transcript_text, destroyed, exited, b>>

stop_listening(close_raises) ==
    /\ ev = Quiet
    /\ ~destroyed
    /\ Room(1)
    /\ IF ~is_listening
       THEN /\ ev' = Event("stop_listening", "none", "none", "none", "debug", <<"ignored">>)
            /\ UNCHANGED <<sessionVars, buttonVars, queue>>
       ELSE /\ StopSession
            /\ queue' = Append(queue, StatusCb("Stopped", "gray"))
            /\ ev' = Event("stop_listening", "none", StopCloseError(close_raises), "none",
                           IF StopCloseError(close_raises) = "none" THEN "info" ELSE "error",
                           <<"stopped">>)
    /\ UNCHANGED <<statusVars, threadVars, expect, model, transcript_text, destroyed, exited, b>>

\* The Stop button runs its command only while it is enabled.
StopPressed(close_raises) == stop_button = "normal" /\ stop_listening(close_raises)

\* clear_transcript: Text.delete("1.0", tk.END)
clear_transcript ==
    /\ ev = Quiet
    /\ ~destroyed
    /\ transcript_text' = <<>>
    /\ ev' = Event("clear_transcript", "none", "none", "none", "debug", <<>>)
    /\ UNCHANGED <<sessionVars, buttonVars, statusVars, threadVars, expect, model, queue, destroyed, exited, b>>

\* save_transcript writing what the widget returns, without strip() (line 302).
save_transcript_NoStrip(chosen, write_ok) ==
    /\ ev = Quiet
    /\ ~destroyed
    /\ LET transcript == TextGet(transcript_text)
           filename == IF chosen THEN <<"f">> ELSE <<>>
       IN
       ev' = IF transcript = <<>>
             THEN Event("save_transcript", "none", "none", "info", "debug", <<"empty">>)
             ELSE IF filename = <<>>
             THEN Event("save_transcript", "none", "none", "none", "debug",
                        <<"cancelled", filename>>)
             ELSE IF write_ok
             THEN Event("save_transcript", "file_write", "none", "info", "info",
                        <<"written", filename, transcript>>)
             ELSE Event("save_transcript", "file_write", "file_write", "error", "error",
                        <<"failed", filename>>)
    /\ UNCHANGED <<sessionVars, buttonVars, statusVars, threadVars, expect, model, transcript_text, queue, destroyed, exited, b>>

\* save_transcript: chosen is whether the save dialog returned a file name
\* (it returns "" when cancelled), write_ok whether open() and write() succeed.
\* ev.arg is what the handler did: <<"empty">> when it returned before the
\* dialog, else the outcome and the dialog's answer, and for a written file
\* its content.
save_transcript(chosen, write_ok) ==
    /\ ev = Quiet
    /\ ~destroyed
    /\ LET transcript == strip(TextGet(transcript_text))
           filename == IF chosen THEN <<"f">> ELSE <<>>
       IN
       ev' = IF transcript = <<>>
             THEN Event("save_transcript", "none", "none", "info", "debug", <<"empty">>)
             ELSE IF filename = <<>>
             THEN Event("save_transcript", "none", "none", "none", "debug",
                        <<"cancelled", filename>>)
             ELSE IF write_ok
             THEN Event("save_transcript", "file_write", "none", "info", "info",
                        <<"written", filename, transcript>>)
             ELSE Event("save_transcript", "file_write", "file_write", "error", "error",
                        <<"failed", filename>>)
    /\ UNCHANGED <<sessionVars, buttonVars, statusVars, threadVars, expect, model, transcript_text, queue, destroyed, exited, b>>

\* on_closing destroying the window without stopping first (lines 361-362 left out).
on_closing_NoStop(close_raises) ==
    /\ ev = Quiet
    /\ ~destroyed
    /\ IF FALSE
       THEN StopSession
       ELSE UNCHANGED <<sessionVars, buttonVars>>
    /\ queue' = <<>>
    /\ destroyed' = TRUE
    /\ ev' = Event("on_closing", "none",
                   IF is_listening THEN StopCloseError(close_raises) ELSE "none", "none",
                   IF is_listening /\ StopCloseError(close_raises) # "none"
                   THEN "error" ELSE "info",
                   IF is_listening THEN <<"stopped">> ELSE <<>>)
    /\ UNCHANGED <<statusVars, threadVars, expect, model, transcript_text, exited, b>>

\* on_closing: the WM_DELETE_WINDOW handler.  root.destroy() discards the
\* callbacks still waiting.
on_closing(close_raises) ==
    /\ ev = Quiet
    /\ ~destroyed
    /\ IF is_listening
       THEN StopSession
       ELSE UNCHANGED <<sessionVars, buttonVars>>
    /\ queue' = <<>>
    /\ destroyed' = TRUE
    /\ ev' = Event("on_closing", "none",
                   IF is_listening THEN StopCloseError(close_raises) ELSE "none", "none",
                   IF is_listening /\ StopCloseError(close_raises) # "none"
                   THEN "error" ELSE "info",
                   IF is_listening THEN <<"stopped">> ELSE <<>>)
    /\ UNCHANGED <<statusVars, threadVars, expect, model, transcript_text, exited, b>>

(***************************************************************************)
(* Callbacks run by the Tk main loop.                                      *)
(***************************************************************************)

\* _add_transcript_impl inserting at "1.0" instead of tk.END.
AddTranscriptImpl_Prepend(content, text) ==
    IF strip(text) # <<>>
    THEN IF strip(TextGet(content)) # <<>>
         THEN <<" ">> \o strip(text) \o <<"\n">> \o content
         ELSE strip(text) \o <<"\n">> \o content
    ELSE content

\* _add_transcript_impl: the content of the transcript widget after the call.
AddTranscriptImpl(content, text) ==
    IF strip(text) # <<>>
    THEN IF strip(TextGet(content)) # <<>>
         THEN content \o <<" ">> \o strip(text) \o <<"\n">>
         ELSE content \o strip(text) \o <<"\n">>
    ELSE content

\* _update_partial_impl: the label text after "Status: ".
PartialLabel(text) ==
    <<"Listening... [Partial: ", Take(text, PartialShown),
      IF Len(text) > PartialShown THEN "..." ELSE "", "]">>

\* s without its first element equal to x
RECURSIVE Without(_, _)
Without(s, x) ==
    IF s = <<>> THEN <<>>
    ELSE IF Head(s) = x THEN Tail(s)
    ELSE <<Head(s)>> \o Without(Tail(s), x)

\* The number of lines in the transcript widget
RECURSIVE Lines(_)
Lines(s) == IF s = <<>> THEN 0 ELSE (IF Head(s) = "\n" THEN 1 ELSE 0) + Lines(Tail(s))

\* The main loop runs the oldest callback posted with root.after(0, ...).
RunCallback ==
    /\ ev = Quiet
    /\ ~destroyed
    /\ queue # <<>>
    /\ LET cb == Head(queue) IN
       /\ queue' = Tail(queue)
       /\ status_label' = IF cb.k = "status" THEN cb.text
                          ELSE IF cb.k = "partial" THEN PartialLabel(cb.text)
                          ELSE status_label
       /\ status_indicator' = IF cb.k = "status" THEN cb.color ELSE status_indicator
       /\ transcript_text' = IF cb.k = "transcript"
                             THEN AddTranscriptImpl(transcript_text, cb.text)
                             ELSE transcript_text
       /\ expect' = IF cb.k = "transcript" THEN Without(expect, cb.text) ELSE expect
       /\ ev' = Quiet
    /\ UNCHANGED <<sessionVars, buttonVars, threadVars, model, destroyed, exited, b>>

(***************************************************************************)
(* recognize_speech, one recognition thread.  A step of the thread runs    *)
(* from one access to the state it shares with the UI thread (the flag,    *)
(* self.audio, self.stream, the Tk queue) to the next blocking call:       *)
(* opening the stream, one pass of the loop up to the recognizer's         *)
(* answer, and the posting of a final result.                              *)
(***************************************************************************)
Finish(t) ==
    /\ pc' = [pc EXCEPT ![t] = "idle"]
    /\ failed' = [failed EXCEPT ![t] = "none"]

OpenOutcomes == {"ok", "open_raises", "start_stream_raises"}

\* The outer except clause without its status update.
PostErrorStatus_Missing(q) == q

\* self.root.after(0, lambda: self.update_status("Error", "red")) on the queue q
PostErrorStatus(q) == Append(q, StatusCb("Error", "red"))

\* self.stream = self.audio.open(...); self.stream.start_stream(), and the
\* outer except clause when one of them raises: log, clear the flag, post the
\* "Error" status (after root.destroy() root.after raises and ends the thread).
OpenStream(t, outcome) ==
    /\ ev = Quiet
    /\ ~exited
    /\ pc[t] = "open"
    /\ audio = "None" => outcome = "open_raises"
    /\ outcome # "ok" => Room(1)
    /\ stream' = IF outcome = "open_raises" THEN stream ELSE "open"
    /\ IF outcome = "ok"
       THEN /\ pc' = [pc EXCEPT ![t] = "loop"]
            /\ ev' = Event("recognize_speech", "stream_open", "none", "none", "debug",
                           <<failed[t]>>)
            /\ UNCHANGED <<is_listening, queue, failed>>
       ELSE /\ is_listening' = FALSE
            /\ queue' = IF destroyed THEN queue ELSE PostErrorStatus(queue)
            /\ Finish(t)
            /\ ev' = Event("recognize_speech", "stream_open", "stream_open", "none",
                           "error", <<failed[t]>>)
    /\ UNCHANGED <<recognizer, audio, thread, buttonVars, statusVars, pending, expect,
                   model, transcript_text, destroyed, exited, b>>

\* What one pass of the try block finds: the read or the recognizer raises,
\* the read returns no data, or the recognizer returns a final or partial text.
ChunkResults ==
    {[k |-> "raises", text |-> <<>>], [k |-> "empty", text |-> <<>>]}
    \cup {[k |-> "final", text |-> x] : x \in Texts}
    \cup {[k |-> "partial", text |-> x] : x \in PartialTexts}

\* The callback a pass of the loop hands to root.after, if any.
ChunkCallback(r) ==
    IF r.k = "final" /\ r.text # <<>> THEN TranscriptCb(r.text)
    ELSE IF r.k = "partial" /\ r.text # <<>> THEN PartialCb(r.text)
    ELSE NoCb

\* The thread's position after a pass of the loop whose try block raised:
\* the inner except clause leaves the loop only if the flag is clear.
AfterChunkError(listening) == IF ~listening THEN "idle" ELSE "loop"

\* while True:
LoopContinues_Always(listening) == TRUE

\* while self.is_listening:
LoopContinues(listening) == listening

\* while self.is_listening: data = self.stream.read(...); AcceptWaveform;
\* Result / PartialResult; update_partial.  A final text is kept in
\* pending[t] until add_transcript posts it.
LoopPass(t, r) ==
    /\ ev = Quiet
    /\ ~exited
    /\ pc[t] = "loop"
    /\ IF ~LoopContinues(is_listening)
       THEN /\ Finish(t)
            /\ ev' = Quiet
            /\ UNCHANGED <<pending, expect, queue>>
       ELSE /\ stream # "open" => r.k = "raises"
            /\ ChunkCallback(r) # NoCb => Room(1)
            /\ ChunkCallback(r).k = "transcript" =>
                   Lines(transcript_text) + Len(expect) < MaxLines
            /\ expect' = IF ChunkCallback(r).k = "transcript"
                         THEN Append(expect, r.text) ELSE expect
            /\ pending' = [pending EXCEPT ![t] =
                              IF ChunkCallback(r).k = "transcript" THEN ChunkCallback(r)
                              ELSE NoCb]
            /\ queue' = IF ChunkCallback(r).k = "partial" /\ ~destroyed
                        THEN Append(queue, ChunkCallback(r)) ELSE queue
            /\ LET raised == r.k = "raises" \/ (ChunkCallback(r).k = "partial" /\ destroyed)
               IN /\ pc' = [pc EXCEPT ![t] =
                               IF raised THEN AfterChunkError(is_listening)
                               ELSE IF ChunkCallback(r).k = "transcript" THEN "post"
                               ELSE "loop"]
                  /\ failed' = [failed EXCEPT ![t] = IF raised THEN "chunk" ELSE failed[t]]
                  /\ ev' = Event("recognize_speech", "chunk",
                                 IF raised THEN "chunk" ELSE "none", "none",
                                 IF raised THEN "error" ELSE "debug", <<failed[t]>>)
    /\ UNCHANGED <<sessionVars, buttonVars, statusVars, model, transcript_text, destroyed, exited, b>>

\* add_transcript: root.after(0, ...).  After root.destroy() the call raises
\* inside the try block of the loop.
PostResult(t) ==
    /\ ev = Quiet
    /\ ~exited
    /\ pc[t] = "post"
    /\ queue' = IF destroyed THEN queue ELSE Append(queue, pending[t])
    /\ pending' = [pending EXCEPT ![t] = NoCb]
    /\ IF destroyed
       THEN /\ IF AfterChunkError(is_listening) = "idle"
               THEN Finish(t)
               ELSE /\ pc' = [pc EXCEPT ![t] = "loop"]
                    /\ failed' = [failed EXCEPT ![t] = "chunk"]
            /\ ev' = Event("recognize_speech", "post", "chunk", "none", "error",
                           <<failed[t]>>)
       ELSE /\ pc' = [pc EXCEPT ![t] = "loop"]
            /\ ev' = Quiet
            /\ UNCHANGED failed
    /\ UNCHANGED <<sessionVars, buttonVars, statusVars, expect, model, transcript_text, destroyed, exited, b>>

recognize_speech(t) ==
    \/ \E outcome \in OpenOutcomes : OpenStream(t, outcome)
    \/ \E r \in ChunkResults : LoopPass(t, r)
    \/ PostResult(t)

\* main() returns after root.mainloop(): the interpreter exits and the
\* daemon threads end with it.
ProcessExit ==
    /\ ev = Quiet
    /\ destroyed
    /\ ~exited
    /\ exited' = TRUE
    /\ pc' = [t \in ThreadIds |-> "idle"]
    /\ pending' = [t \in ThreadIds |-> NoCb]
    /\ failed' = [t \in ThreadIds |-> "none"]
    /\ ev' = Quiet
    /\ UNCHANGED <<sessionVars, buttonVars, statusVars, expect, model, transcript_text, queue, destroyed, b>>

\* The record of a step is read before the next step is taken.
Return ==
    /\ ev # Quiet
    /\ ev' = Quiet
    /\ UNCHANGED <<sessionVars, buttonVars, statusVars, threadVars, expect, model,
                   transcript_text, queue, destroyed, exited, b>>

(***************************************************************************)
(* The packaging script, build_exe.py.  A path or a name is a sequence of  *)
(* characters; a piece of an f-string that is a literal is one element.    *)
(***************************************************************************)
None == <<"None">>

\* Python's truth value of an optional string
Truthy(x) == x # None /\ x # <<>>

\* The index of the last c in s, 0 if there is none
RECURSIVE LastIndex(_, _)
LastIndex(s, c) ==
    IF s = <<>> THEN 0
    ELSE IF s[Len(s)] = c THEN Len(s)
    ELSE LastIndex(SubSeq(s, 1, Len(s) - 1), c)

\* os.path.basename
Basename(path) == SubSeq(path, LastIndex(path, "/") + 1, Len(path))

\* os.path.splitext(name)[0] for a name without a directory: a leading dot
\* starts no extension
SplitextRoot(name) ==
    IF LastIndex(name, ".") > 1 THEN SubSeq(name, 1, LastIndex(name, ".") - 1) ELSE name

\* output_name after "if not output_name:"
OutputName(a) ==
    IF ~Truthy(a.output_name) THEN SplitextRoot(Basename(a.script_path))
    ELSE a.output_name

\* build_executable with --windowed appended when console is set.
PyinstallerArgs_ConsoleInverted(a) ==
    <<<<"pyinstaller">>, <<"--name=">> \o OutputName(a), <<"--clean">>>>
    \o (IF a.one_file THEN <<<<"--onefile">>>> ELSE <<>>)
    \o (IF a.console THEN <<<<"--windowed">>>> ELSE <<>>)
    \o (IF Truthy(a.icon) /\ a.icon_exists THEN <<<<"--icon=">> \o a.icon>> ELSE <<>>)
    \o (IF a.include_model /\ Truthy(a.model_path) /\ a.model_exists
        THEN <<<<"--add-data=">> \o a.model_path \o <<a.pathsep, "model/">>
               \o Basename(a.model_path)>>
        ELSE <<>>)
    \o <<a.script_path>>

\* build_executable: the argument list handed to subprocess.check_call
PyinstallerArgs(a) ==
    <<<<"pyinstaller">>, <<"--name=">> \o OutputName(a), <<"--clean">>>>
    \o (IF a.one_file THEN <<<<"--onefile">>>> ELSE <<>>)
    \o (IF ~a.console THEN <<<<"--windowed">>>> ELSE <<>>)
    \o (IF Truthy(a.icon) /\ a.icon_exists THEN <<<<"--icon=">> \o a.icon>> ELSE <<>>)
    \o (IF a.include_model /\ Truthy(a.model_path) /\ a.model_exists
        THEN <<<<"--add-data=">> \o a.model_path \o <<a.pathsep, "model/">>
               \o Basename(a.model_path)>>
        ELSE <<>>)
    \o <<a.script_path>>

\* build_executable: dist_path
DistPath(a) ==
    <<"cwd", "/", "dist", "/">> \o OutputName(a)
    \o (IF a.one_file /\ a.platform = "win32" THEN <<".exe">> ELSE <<>>)

\* What subprocess.check_call does: return, raise CalledProcessError on a
\* non-zero exit status, or raise OSError when the program cannot be run.
CallOutcomes == {"ok", "nonzero", "oserror"}

ScriptPaths == {<<"a", ".", "p", "y">>, <<"s", "/", "b", ".", "p", "y">>}
OutputNames == {None, <<>>, <<"o">>}
IconPaths == {None, <<>>, <<"i", ".", "i", "c", "o">>}
ModelPaths == {None, <<>>, <<"m", "/", "v">>}

\* The arguments of one call of build_executable and what it meets.
BuildInputs ==
    [script_path : ScriptPaths, output_name : OutputNames, one_file : BOOLEAN,
     console : BOOLEAN, icon : IconPaths, icon_exists : BOOLEAN,
     include_model : BOOLEAN, model_path : ModelPaths, model_exists : BOOLEAN,
     pathsep : {":", ";"}, platform : {"linux", "win32"}, outcome : CallOutcomes]

\* build_executable(script_path, output_name, one_file, console, icon,
\* include_model, model_path)
build_executable ==
    /\ b.phase = "called"
    /\ b' = [b EXCEPT !.phase = "returned",
                       !.calls = <<PyinstallerArgs(b.in)>>,
                       !.ret = IF b.in.outcome = "ok" THEN DistPath(b.in)
                               ELSE IF b.in.outcome = "nonzero" THEN None
                               ELSE <<"raised">>]
    /\ UNCHANGED appvars

BuildInit ==
    /\ AppInit
    /\ \E a \in BuildInputs : b = [phase |-> "called", in |-> a, calls |-> <<>>, ret |-> None]

BuildNext == build_executable

BuildSpec == BuildInit /\ [][BuildNext]_vars

(***************************************************************************)
(* build_exe.py: download_vosk_model and main.  The files the script       *)
(* leaves in the working directory outlive a run, so main is modelled over *)
(* repeated runs: b.fs is the working directory, b.dl the latest call of   *)
(* download_vosk_model and b.prev the call before it.                      *)
(***************************************************************************)

\* os.path.join(os.getcwd(), "model", model_name)
DownloadedModel == <<"cwd", "/", "model", "/", "vosk-model-small-en-us-0.15">>

\* The working directory before the first run: zip is the downloaded
\* archive, dir the "model" directory, extracted the directory the archive
\* unpacks to.
FsFresh == [zip |-> "absent", dir |-> FALSE, extracted |-> "absent"]

\* The try block of the download: requests.get or raise_for_status raises
\* before the file is opened, or the copy loop raises after open(..., 'wb')
\* created the file.
DownloadOutcomes == {"ok", "request_raises", "write_raises"}

\* The try block of the extraction: ZipFile() raises, or extractall raises
\* after it created the top directory.
ExtractOutcomes == {"ok", "open_raises", "extract_raises"}

NoDownload ==
    [downloaded |-> "none", extracted |-> "none", ret |-> None,
     zip_before |-> "absent", extracted_before |-> "absent"]

\* download_vosk_model(): the working directory it leaves and the record of
\* what it did.  A truncated archive has no central directory, so ZipFile()
\* raises on it.
download_vosk_model(fs, d, x) ==
    LET attempt == fs.zip = "absent"
        zip == IF ~attempt THEN fs.zip
               ELSE IF d = "ok" THEN "complete"
               ELSE IF d = "write_raises" THEN "partial"
               ELSE "absent"
        unpack == fs.extracted = "absent"
        unpacked == zip = "complete" /\ x = "ok"
        extracted == IF ~unpack THEN fs.extracted
                     ELSE IF unpacked THEN "complete"
                     ELSE IF zip = "complete" /\ x = "extract_raises" THEN "partial"
                     ELSE "absent"
    IN
    IF attempt /\ d # "ok"
    THEN [fs |-> [zip |-> zip, dir |-> TRUE, extracted |-> fs.extracted],
          rec |-> [downloaded |-> "failed", extracted |-> "none", ret |-> None,
                   zip_before |-> fs.zip, extracted_before |-> fs.extracted]]
    ELSE [fs |-> [zip |-> zip, dir |-> TRUE, extracted |-> extracted],
          rec |-> [downloaded |-> IF attempt THEN "ok" ELSE "skipped",
                   extracted |-> IF ~unpack THEN "skipped"
                                 ELSE IF unpacked THEN "ok" ELSE "failed",
                   ret |-> IF unpack /\ ~unpacked THEN None ELSE DownloadedModel,
                   zip_before |-> fs.zip, extracted_before |-> fs.extracted]]

\* The command line: argparse defaults are None and False.  --console and
\* --script are handed to build_executable as they are and stay at one value.
MainArgs ==
    [script : {<<"a", ".", "p", "y">>}, output : {None, <<"o">>}, model : ModelPaths,
     download_model : BOOLEAN, onedir : BOOLEAN, console : {FALSE},
     icon : {None, <<"i", ".", "i", "c", "o">>}]

\* What the environment answers to the build: os.path.exists of a model
\* path given by the user, the platform, PyInstaller's outcome.  The icon
\* file named on the command line exists.
BuildEnvs ==
    [icon_exists : {TRUE}, model_exists : BOOLEAN, platform : {"linux", "win32"},
     outcome : CallOutcomes]

\* The condition of line 190 with --model never consulted.
NeedsDownload_FlagOnly(a) == a.download_model

\* if args.download_model or not model_path
NeedsDownload(a) == a.download_model \/ ~Truthy(a.model)

\* model_path after lines 189-193
SelectedModel(a, downloaded_model) ==
    IF NeedsDownload(a) /\ Truthy(downloaded_model) THEN downloaded_model ELSE a.model

NotCalled == [called |-> FALSE, ret |-> None]

NoInputs ==
    [script_path |-> <<>>, output_name |-> None, one_file |-> TRUE, console |-> FALSE,
     icon |-> None, icon_exists |-> FALSE, include_model |-> FALSE, model_path |-> None,
     model_exists |-> FALSE, pathsep |-> ":", platform |-> "linux", outcome |-> "ok"]

\* main after parse_args() and check_dependencies(), about to handle the model.
MainStart(a, fs, dl, prev) ==
    [phase |-> "main", cli |-> a, fs |-> fs, dl |-> dl, prev |-> prev, call |-> NotCalled,
     in |-> NoInputs, calls |-> <<>>, ret |-> None, log |-> <<>>]

\* main, lines 189-204: the model is chosen and build_executable is called.
main_handle_model(d, x, e) ==
    /\ b.phase = "main"
    /\ LET a == b.cli
           r == download_vosk_model(b.fs, d, x)
           downloaded_model == IF NeedsDownload(a) THEN r.rec.ret ELSE None
           model_path == SelectedModel(a, downloaded_model)
           fs == IF NeedsDownload(a) THEN r.fs ELSE b.fs
       IN
       b' = [b EXCEPT
               !.phase = "called",
               !.fs = fs,
               !.dl = IF NeedsDownload(a) THEN r.rec ELSE b.dl,
               !.prev = IF NeedsDownload(a) THEN b.dl ELSE b.prev,
               !.call = [called |-> NeedsDownload(a), ret |-> downloaded_model],
               !.in = [script_path |-> a.script, output_name |-> a.output,
                       one_file |-> ~a.onedir, console |-> a.console, icon |-> a.icon,
                       icon_exists |-> e.icon_exists,
                       include_model |-> IF Truthy(model_path) THEN TRUE ELSE FALSE,
                       model_path |-> model_path,
                       model_exists |-> IF model_path = DownloadedModel
                                        THEN fs.extracted # "absent"
                                        ELSE e.model_exists,
                       pathsep |-> IF e.platform = "win32" THEN ";" ELSE ":",
                       platform |-> e.platform, outcome |-> e.outcome]]
    /\ UNCHANGED appvars

\* main, lines 206-217: the result is logged.  An exception raised by
\* build_executable is not caught and ends the run.
main_report ==
    /\ b.phase = "returned"
    /\ b' = IF b.ret = <<"raised">>
            THEN [b EXCEPT !.phase = "aborted"]
            ELSE [b EXCEPT
                    !.phase = "done",
                    !.log = IF Truthy(b.ret)
                            THEN <<"Build completed successfully">>
                                 \o (IF b.in.one_file /\ Truthy(b.in.model_path)
                                     THEN <<"Note">> ELSE <<>>)
                            ELSE <<"Build failed">>]
    /\ UNCHANGED appvars

\* The script is run again in the same working directory.
main_again(a) ==
    /\ b.phase \in {"done", "aborted"}
    /\ b' = MainStart(a, b.fs, b.dl, b.prev)
    /\ UNCHANGED appvars

MainInit ==
    /\ AppInit
    /\ \E a \in MainArgs : b = MainStart(a, FsFresh, NoDownload, NoDownload)

MainNext ==
    \/ \E d \in DownloadOutcomes, x \in ExtractOutcomes, e \in BuildEnvs :
          main_handle_model(d, x, e)
    \/ build_executable
    \/ main_report
    \/ \E a \in MainArgs : main_again(a)

MainSpec == MainInit /\ [][MainNext]_vars

\* The packaging script is not running while the application is modelled.
BuildIdle == [phase |-> "idle"]

Init == AppInit /\ b = BuildIdle

Next ==
    \/ \E path_exists \in BOOLEAN, loads \in BOOLEAN : check_model(path_exists, loads)
    \/ \E outcome \in StartOutcomes : StartPressed(outcome)
    \/ \E close_raises \in BOOLEAN : StopPressed(close_raises)
    \/ clear_transcript
    \/ \E chosen \in BOOLEAN, write_ok \in BOOLEAN : save_transcript(chosen, write_ok)
    \/ \E close_raises \in BOOLEAN : on_closing(close_raises)
    \/ RunCallback
    \/ \E t \in ThreadIds : recognize_speech(t)
    \/ ProcessExit
    \/ Return

Spec == Init /\ [][Next]_vars

\* The two handlers are also plain methods: on_closing calls stop_listening
\* itself.  CallSpec adds callers that invoke them whatever the buttons show.
CallNext ==
    \/ Next
    \/ \E outcome \in StartOutcomes : start_listening(outcome)
    \/ \E close_raises \in BOOLEAN : stop_listening(close_raises)

CallSpec == Init /\ [][CallNext]_vars

\* The thread scheduler runs every thread that can take a step, the Tk main
\* loop runs every waiting callback, and the interpreter exits once the main
\* loop has ended.  A step waits only for the record of the previous step to
\* be read, which always happens, so this fairness is strong fairness here.
\* Nothing obliges the user to press a button.
FairSpec ==
    /\ Spec
    /\ \A t \in ThreadIds : SF_vars(recognize_speech(t))
    /\ SF_vars(RunCallback)
    /\ SF_vars(ProcessExit)
    /\ WF_vars(Return)

(***************************************************************************)
(* Properties of the application.                                          *)
(***************************************************************************)

\* C1: before and after every step the Start Listening button is enabled
\* only if self.model holds a loaded model (so it is disabled initially, when
\* self.model is None), and a check_model call that fails (missing path, or
\* Model() raises) leaves the button as it was.
C1_StartNeedsModel ==
    [][/\ start_button = "normal" => model # "None"
       /\ start_button' = "normal" => model' # "None"
       /\ (ev'.op = "check_model" /\ ev'.err # "none") => start_button' = start_button
      ]_vars

\* A check_model call has failed and the button is still disabled.
C1_Witness ==
    /\ ev.op = "check_model"
    /\ ev.err = "model_load"
    /\ start_button = "disabled"
    /\ model = "None"

\* C2: whenever stop_listening has been invoked through the enabled Stop
\* button, Start is enabled, Stop is disabled and Check Model is enabled.
C2_StopReenablesStart ==
    ev.op = "stop_listening" =>
        /\ start_button = "normal"
        /\ stop_button = "disabled"
        /\ check_model_button = "normal"

\* C3: at most one thread is executing recognize_speech.
C3_SingleThread == Cardinality({t \in ThreadIds : Alive(t)}) <= 1

\* C4: once stop_listening has cleared is_listening, every recognition
\* thread alive at that moment eventually terminates.
C4_StoppedThreadsTerminate ==
    \A t \in ThreadIds :
        (ev.op = "stop_listening" /\ ev.arg = <<"stopped">> /\ Alive(t)) ~> ~Alive(t)

\* C5: the transcript widget is given the final texts in the order in which
\* the recognizer returned them: a text that leaves the outstanding texts
\* is the oldest of them.
C5_TranscriptsInOrder ==
    [][Len(expect') < Len(expect) => expect' = Tail(expect)]_vars

\* C6: every step other than clear_transcript leaves the transcript
\* unchanged or appends to it: the old content is a prefix of the new one.
C6_AppendOnly ==
    [][ev'.op # "clear_transcript" => IsPrefix(transcript_text, transcript_text')]_vars

\* Two final texts have been appended one after the other.
C6_Witness == Lines(transcript_text) >= 2 /\ ev = Quiet

\* C7, as claimed: every error that is caught is logged and shown in a
\* modal error dialog.
C7_EveryErrorHasDialog == ev.err # "none" => (ev.log = "error" /\ ev.dialog = "error")

\* C7, amended: every caught error is logged; the errors of check_model,
\* start_listening and save_transcript are shown in a modal error dialog;
\* the errors of the recognition thread and of closing the stream show no
\* dialog, and a failure to open the stream posts the "Error" status
\* instead (while the window exists).
C7_ErrorsSurfaced ==
    /\ ev.err # "none" => ev.log = "error"
    /\ ev.err \in {"model_path", "model_load", "start", "file_write"} =>
           ev.dialog = "error"
    /\ ev.err \in {"stream_open", "chunk", "stream_close"} => ev.dialog = "none"
    /\ (ev.err = "stream_open" /\ ~destroyed) =>
           /\ queue # <<>>
           /\ queue[Len(queue)] = StatusCb("Error", "red")
           /\ ~is_listening

\* The recognition thread has failed to open the microphone stream.
C7_Witness == ev.op = "recognize_speech" /\ ev.err = "stream_open" /\ ~destroyed

\* C8, as claimed: no recognition thread attempts an operation that has
\* already failed in it.
C8_NoRetry ==
    ~(ev.op = "recognize_speech" /\ ev.attempt # "none" /\ ev.arg = <<ev.attempt>>)

\* C8, amended: the only operation attempted again without a user action is
\* the reading and recognition of an audio chunk, and only while
\* is_listening is True; a model load, a start and a file write are attempted
\* only by their handlers, and a thread opens the stream once.
C8_OnlyChunksRetried ==
    /\ (ev.op = "recognize_speech" /\ ev.attempt # "none" /\ ev.arg = <<ev.attempt>>) =>
           (ev.attempt = "chunk" /\ is_listening)
    /\ ev.attempt = "model_load" => ev.op = "check_model"
    /\ ev.attempt = "start" => ev.op = "start_listening"
    /\ ev.attempt = "file_write" => ev.op = "save_transcript"
    /\ ev.attempt = "stream_open" => (ev.op = "recognize_speech" /\ ev.arg = <<"none">>)

\* A thread reads a chunk again after a read or recognition has failed in it.
C8_Witness ==
    /\ ev.op = "recognize_speech"
    /\ ev.attempt = "chunk"
    /\ ev.arg = <<"chunk">>
    /\ is_listening

\* C9: check_model on a path that does not exist reports the error without
\* calling Model() and leaves self.model, the Start button and is_listening
\* unchanged; self.model changes only when the path exists.
C9_MissingPathLoadsNothing ==
    [][/\ (ev'.op = "check_model" /\ ev'.arg = <<"missing">>) =>
              /\ ev'.attempt = "none"
              /\ ev'.err = "model_path"
              /\ ev'.dialog = "error"
              /\ model' = model
              /\ start_button' = start_button
              /\ is_listening' = is_listening
       /\ model' # model => (ev'.op = "check_model" /\ ev'.arg = <<"exists">>)
      ]_vars

\* check_model has been called on a missing path.
C9_Witness == ev.op = "check_model" /\ ev.arg = <<"missing">> /\ ev.err = "model_path"

(***************************************************************************)
(* Properties of the packaging script.                                     *)
(***************************************************************************)
Has(args, x) == \E i \in 1..Len(args) : args[i] = x

HasOption(args, flag) == \E i \in 1..Len(args) : args[i] # <<>> /\ Head(args[i]) = flag

\* C10: build_executable runs one subprocess whose argument list is
\* pyinstaller, --name=<output>, --clean, options, script_path with the script
\* path last; --onefile is present iff one_file, --windowed iff not console,
\* --icon iff an icon is given and exists, --add-data iff include_model and
\* model_path is given and exists; it returns the dist path when the
\* subprocess succeeds and None when it exits with a non-zero status.
C10_FixedArgumentList ==
    b.phase = "returned" =>
        /\ Len(b.calls) = 1
        /\ LET args == b.calls[1]
               a == b.in
               name == IF a.output_name \in {None, <<>>}
                       THEN (IF a.script_path = <<"a", ".", "p", "y">>
                             THEN <<"a">> ELSE <<"b">>)
                       ELSE a.output_name
           IN /\ Len(args) >= 4
              /\ args[1] = <<"pyinstaller">>
              /\ args[2] = <<"--name=">> \o name
              /\ args[3] = <<"--clean">>
              /\ args[Len(args)] = a.script_path
              /\ \A i \in 4..(Len(args) - 1) :
                     Head(args[i]) \in {"--onefile", "--windowed", "--icon=", "--add-data="}
              /\ Has(args, <<"--onefile">>) <=> a.one_file
              /\ Has(args, <<"--windowed">>) <=> ~a.console
              /\ HasOption(args, "--icon=") <=>
                     (a.icon \notin {None, <<>>} /\ a.icon_exists)
              /\ HasOption(args, "--add-data=") <=>
                     (a.include_model /\ a.model_path \notin {None, <<>>} /\ a.model_exists)
              /\ a.outcome = "ok" =>
                     b.ret = <<"cwd", "/", "dist", "/">> \o name
                             \o (IF a.one_file /\ a.platform = "win32"
                                 THEN <<".exe">> ELSE <<>>)
              /\ a.outcome = "nonzero" => b.ret = None

\* A build with every option present has succeeded.
C10_Witness ==
    /\ b.phase = "returned"
    /\ b.in.outcome = "ok"
    /\ Len(b.calls[1]) = 8
    /\ b.ret # None

C12_RedundantRequestsIgnored ==
    [][((ev'.op = "start_listening" /\ is_listening) \/ (ev'.op = "stop_listening" /\ ~is_listening)) =>
           /\ UNCHANGED <<sessionVars, buttonVars, statusVars, threadVars, queue, expect,
                          model, transcript_text, destroyed, exited>>
           /\ ev'.err = "none" /\ ev'.dialog = "none"]_vars

\* start_listening was invoked while a session with a running thread was on.
C12_Witness ==
    /\ ev.op = "start_listening" /\ ev.arg = <<"ignored">>
    /\ is_listening
    /\ \E t \in ThreadIds : pc[t] = "loop"

\* C13: closing the window stops recognition first.  When on_closing runs
\* while is_listening is True, the window is destroyed with the flag False,
\* the PyAudio instance terminated and no stream open.  From then on the flag
\* stays False, nothing is posted to the main loop, and every step a
\* recognition thread takes is its last one.
C13_CloseStopsFirst ==
    [][/\ (ev'.op = "on_closing" /\ is_listening) =>
            /\ destroyed'
            /\ ~is_listening'
            /\ audio' = "None"
            /\ stream' # "open"
       /\ destroyed' => ~is_listening'
       /\ (destroyed /\ audio = "None") =>
            /\ queue' = <<>>
            /\ audio' = "None"
            /\ \A t \in ThreadIds : pc'[t] \in {pc[t], "idle"}
            /\ ev'.op = "recognize_speech" => \E t \in ThreadIds : Alive(t) /\ pc'[t] = "idle"]_vars

\* The window was closed during a session whose thread holds a final result
\* it has not posted yet.
C13_Witness ==
    /\ ev.op = "on_closing" /\ ev.arg = <<"stopped">>
    /\ destroyed
    /\ \E t \in ThreadIds : pc[t] = "post"

\* w is s without its leading and trailing whitespace.
Stripped(w, s) ==
    /\ w = <<>> => \A k \in 1..Len(s) : IsSpace(s[k])
    /\ w # <<>> =>
         /\ ~IsSpace(w[1]) /\ ~IsSpace(w[Len(w)])
         /\ \E i \in 1..Len(s) :
              /\ i + Len(w) - 1 <= Len(s)
              /\ SubSeq(s, i, i + Len(w) - 1) = w
              /\ \A k \in 1..Len(s) : (k < i \/ k > i + Len(w) - 1) => IsSpace(s[k])

\* C14: save_transcript never changes the transcript.  It writes a file only
\* when the transcript is not blank and the dialog returned a file name, and
\* the content written is the transcript without its leading and trailing
\* whitespace; a blank transcript ends before the dialog and a cancelled
\* dialog ends without a write; a failed write is logged and shown as an
\* error.
C14_SaveWritesStripped ==
    [][ev'.op = "save_transcript" =>
          LET full == TextGet(transcript_text)
              did == ev'.arg[1]
          IN
          /\ UNCHANGED <<transcript_text, sessionVars, buttonVars, statusVars, threadVars, queue>>
          /\ did \in {"empty", "cancelled", "written", "failed"}
          /\ did = "empty" <=> Stripped(<<>>, full)
          /\ did = "cancelled" => ev'.arg[2] = <<>> /\ ev'.attempt = "none"
          /\ did \in {"written", "failed"} => ev'.arg[2] # <<>> /\ ev'.attempt = "file_write"
          /\ did = "written" =>
                /\ ev'.arg[3] # <<>>
                /\ Stripped(ev'.arg[3], full)
                /\ ev'.err = "none"
          /\ did = "failed" =>
                ev'.err = "file_write" /\ ev'.log = "error" /\ ev'.dialog = "error"]_vars

\* A transcript of two lines was written, without the newline that ends it.
C14_Witness ==
    /\ ev.op = "save_transcript" /\ ev.arg[1] = "written"
    /\ Lines(transcript_text) = 2
    /\ Len(ev.arg[3]) < Len(transcript_text)

\* What main has done with the model once it has called build_executable.
C15_Selected ==
    b.phase \in {"called", "returned", "done", "aborted"} =>
        LET a == b.cli
            given == a.model # None /\ a.model # <<>>
        IN
        /\ b.call.called <=> (a.download_model \/ ~given)
        /\ (b.call.called /\ b.call.ret # None) => b.in.model_path = b.call.ret
        /\ (~b.call.called \/ b.call.ret = None) => b.in.model_path = a.model
        /\ b.in.include_model <=> (b.in.model_path # None /\ b.in.model_path # <<>>)
        /\ b.phase # "called" => Len(b.calls) = 1
        /\ b.phase = "done" => (Has(b.log, "Build failed") <=> b.ret = None)
        /\ b.phase = "aborted" => b.ret = <<"raised">> /\ b.log = <<>>

\* C15: model selection in main.  download_vosk_model is called iff
\* --download-model is given or --model is missing or empty; the path it
\* returns replaces the model path, and when it returns None the --model
\* value is kept; build_executable is called next whatever the download
\* returned, with include_model true iff the model path is non-empty; and
\* "Build failed" is logged iff build_executable returned None.
C15_ModelSelection ==
    [][/\ b.phase = "main" => b'.phase = "called"
       /\ b.phase = "called" => b'.phase = "returned"
       /\ C15_Selected']_vars

\* --download-model was given together with --model, the download failed,
\* and the build succeeded with the model given by the user.
C15_Witness ==
    /\ b.phase = "done"
    /\ b.cli.download_model /\ b.cli.model = <<"m", "/", "v">>
    /\ b.call.called /\ b.call.ret = None
    /\ b.in.model_path = b.cli.model /\ b.in.include_model
    /\ b.ret # None /\ ~Has(b.log, "Build failed")

\* C16: download_vosk_model across runs.  It downloads only when the zip file
\* is absent and unpacks only when the extracted directory is absent; it
\* returns None when the download or the extraction failed; after a call that
\* returned a path the next call returns the same path without downloading or
\* unpacking; and the call that follows a failed download attempts the
\* download again.
C16_DownloadIdempotent ==
    b.dl.downloaded # "none" =>
        /\ b.dl.downloaded \in {"ok", "failed"} => b.dl.zip_before = "absent"
        /\ b.dl.extracted \in {"ok", "failed"} => b.dl.extracted_before = "absent"
        /\ (b.dl.downloaded = "failed" \/ b.dl.extracted = "failed") => b.dl.ret = None
        /\ b.prev.ret # None =>
              /\ b.dl.ret = b.prev.ret
              /\ b.dl.downloaded = "skipped" /\ b.dl.extracted = "skipped"
        /\ b.prev.downloaded = "failed" => b.dl.downloaded \in {"ok", "failed"}

====
